---- MODULE Spec2Model ----
(***************************************************************************)
(* The chess escrow program (programs/escrow/src/lib.rs): one GameEscrow   *)
(* session, its vault, and the instructions that act on them.              *)
(*                                                                         *)
(* Every instruction is one action.  An instruction that returns Err       *)
(* aborts its transaction: no account write and no lamport movement of the *)
(* instruction is kept.  Each handler is an operator from the state before *)
(* the call and the call's inputs to an outcome record                     *)
(*   [err, game_escrow, game_vault, fee, to_white, to_black]               *)
(* (the error kind or "Ok", the session and vault after the call, and the  *)
(* lamports the call moved out of the vault to each recipient).            *)
(*                                                                         *)
(* Strings the code only measures or compares (squares, move notation) are *)
(* sequences of byte values.  Fields of MoveRecord and GameEscrow that no  *)
(* handler reads (piece, position_hash, ratings, ...) are left out.        *)
(***************************************************************************)
EXTENDS Integers, Sequences, FiniteSets, TLC

VARIABLES
    game_escrow,    \* the GameEscrow account
    game_vault,     \* lamports held by the vault PDA of the session
    clock,          \* Clock::get()?.unix_timestamp
    last,           \* the last instruction executed: its name, what it returned,
                    \* the vault before it and the lamports it moved out
    distributions   \* how many times distribute_funds ran to completion

vars == <<game_escrow, game_vault, clock, last, distributions>>

----------------------------------------------------------------------------
(* Bounds of the model *)

MaxTime == 3        \* the clock runs from StartTime to MaxTime
MaxMoves == 4       \* record_move is explored while move_count < MaxMoves
StartTime == 1      \* the time of initialize_game (0 is the unset timestamp)

(* Inputs *)

DefaultPubkey == "default"          \* Pubkey::default(): nobody signs as it
Signers == {"w", "b", "x"}          \* identities that can sign a transaction
Creator == "w"                      \* the signer of initialize_game
FeeCollector == "f"
StakeAmounts == {50, 1000}          \* stake_amount given to initialize_game
TimeLimits == {1}                   \* time_limit_seconds given to it

GameWinners == {"None", "White", "Black", "Draw"}
GameEndReasons ==
    {"Checkmate", "Resignation", "Timeout", "Agreement", "Stalemate", "Abandonment"}

\* "e2", "e4", "z9", "e"
FromSquares == {<<101, 50>>, <<122, 57>>}
ToSquares == {<<101, 50>>, <<101, 52>>, <<101>>}
\* a notation of 10 bytes and one of 11
MoveNotations == {[i \in 1..10 |-> 120], [i \in 1..11 |-> 120]}

\* The Payment Rail refuses the rail_fail-th transfer of a call (0: none).
RailFailures == 0..3

----------------------------------------------------------------------------
(* Outcomes of an instruction *)

\* The instruction returned Err(e): the transaction is aborted and the
\* accounts are as they were before it.
Abort(ge, vault, e) ==
    [err |-> e, game_escrow |-> ge, game_vault |-> vault,
     fee |-> 0, to_white |-> 0, to_black |-> 0]

\* The instruction returned Ok(()).
Commit(ge, vault, fee, to_white, to_black) ==
    [err |-> "Ok", game_escrow |-> ge, game_vault |-> vault,
     fee |-> fee, to_white |-> to_white, to_black |-> to_black]

----------------------------------------------------------------------------
(* initialize_game *)

\* An initialize_game that grants an increment of one second per move.
initialize_game_with_increment(player, fee_collector, stake_amount, time_limit_seconds, now) ==
    [player_white |-> player,
     player_black |-> DefaultPubkey,
     stake_amount |-> stake_amount,
     total_deposited |-> 0,
     game_state |-> "WaitingForPlayers",
     winner |-> "None",
     created_at |-> now,
     started_at |-> 0,
     finished_at |-> 0,
     time_limit_seconds |-> time_limit_seconds,
     fee_collector |-> fee_collector,
     white_deposited |-> FALSE,
     black_deposited |-> FALSE,
     move_count |-> 0,
     last_move_time |-> 0,
     time_control |-> [initial_time |-> time_limit_seconds, increment |-> 1],
     move_history |-> <<>>,
     anti_cheat_flags |-> 0,
     enable_anti_cheat |-> TRUE]

initialize_game(player, fee_collector, stake_amount, time_limit_seconds, now) ==
    [player_white |-> player,
     player_black |-> DefaultPubkey,
     stake_amount |-> stake_amount,
     total_deposited |-> 0,
     game_state |-> "WaitingForPlayers",
     winner |-> "None",
     created_at |-> now,
     started_at |-> 0,
     finished_at |-> 0,
     time_limit_seconds |-> time_limit_seconds,
     fee_collector |-> fee_collector,
     white_deposited |-> FALSE,
     black_deposited |-> FALSE,
     move_count |-> 0,
     last_move_time |-> 0,
     time_control |-> [initial_time |-> time_limit_seconds, increment |-> 0],
     move_history |-> <<>>,
     anti_cheat_flags |-> 0,
     enable_anti_cheat |-> TRUE]

----------------------------------------------------------------------------
(* join_game *)

\* A join_game that takes the seat of black until the game starts.
join_game_call_takes_seat(ge, vault, player) ==
    IF ge.game_state \notin {"WaitingForPlayers", "WaitingForDeposits"}
    THEN Abort(ge, vault, "GameNotWaitingForPlayers")
    ELSE IF ge.player_white = player
    THEN Abort(ge, vault, "CannotPlayAgainstSelf")
    ELSE Commit([ge EXCEPT !.player_black = player,
                           !.game_state = "WaitingForDeposits"],
                vault, 0, 0, 0)

join_game_call(ge, vault, player) ==
    IF ge.game_state # "WaitingForPlayers"
    THEN Abort(ge, vault, "GameNotWaitingForPlayers")
    ELSE IF ge.player_white = player
    THEN Abort(ge, vault, "CannotPlayAgainstSelf")
    ELSE Commit([ge EXCEPT !.player_black = player,
                           !.game_state = "WaitingForDeposits"],
                vault, 0, 0, 0)

----------------------------------------------------------------------------
(* deposit_stake *)

\* A deposit that sets the flag and forgets the running total.
update_deposit_status_total_forgotten(ge, is_white, now) ==
    LET ge1 == IF is_white THEN [ge EXCEPT !.white_deposited = TRUE]
                           ELSE [ge EXCEPT !.black_deposited = TRUE]
    IN IF ge1.white_deposited /\ ge1.black_deposited
       THEN [ge1 EXCEPT !.game_state = "InProgress",
                        !.started_at = now,
                        !.last_move_time = now]
       ELSE ge1

\* A deposit that starts the game as soon as one player has paid.
update_deposit_status_starts_early(ge, is_white, now) ==
    LET ge1 == IF is_white THEN [ge EXCEPT !.white_deposited = TRUE]
                           ELSE [ge EXCEPT !.black_deposited = TRUE]
        ge2 == [ge1 EXCEPT !.total_deposited = @ + ge.stake_amount]
    IN IF ge2.white_deposited \/ ge2.black_deposited
       THEN [ge2 EXCEPT !.game_state = "InProgress",
                        !.started_at = now,
                        !.last_move_time = now]
       ELSE ge2

\* A deposit that starts the game and leaves last_move_time unset.
update_deposit_status_clock_not_started(ge, is_white, now) ==
    LET ge1 == IF is_white THEN [ge EXCEPT !.white_deposited = TRUE]
                           ELSE [ge EXCEPT !.black_deposited = TRUE]
        ge2 == [ge1 EXCEPT !.total_deposited = @ + ge.stake_amount]
    IN IF ge2.white_deposited /\ ge2.black_deposited
       THEN [ge2 EXCEPT !.game_state = "InProgress",
                        !.started_at = now]
       ELSE ge2

\* "Update deposit status" and "Start game if both players have deposited":
\* the session after the stake has reached the vault.
update_deposit_status(ge, is_white, now) ==
    LET ge1 == IF is_white THEN [ge EXCEPT !.white_deposited = TRUE]
                           ELSE [ge EXCEPT !.black_deposited = TRUE]
        ge2 == [ge1 EXCEPT !.total_deposited = @ + ge.stake_amount]
    IN IF ge2.white_deposited /\ ge2.black_deposited
       THEN [ge2 EXCEPT !.game_state = "InProgress",
                        !.started_at = now,
                        !.last_move_time = now]
       ELSE ge2

\* A deposit_stake that takes a second stake from a player who has paid.
deposit_stake_call_repeatable(ge, vault, now, player_key, rail_fail) ==
    IF ge.game_state \notin {"WaitingForDeposits", "WaitingForPlayers"}
    THEN Abort(ge, vault, "InvalidGameStateForDeposit")
    ELSE IF player_key # ge.player_white /\ player_key # ge.player_black
    THEN Abort(ge, vault, "UnauthorizedPlayer")
    ELSE IF rail_fail = 1
    THEN Abort(ge, vault, "TransferFailed")
    ELSE Commit(update_deposit_status(ge, player_key = ge.player_white, now),
                vault + ge.stake_amount, 0, 0, 0)

\* A deposit_stake that marks the deposit before the transfer is known to
\* have gone through, and keeps the mark.
deposit_stake_call_marks_before_transfer(ge, vault, now, player_key, rail_fail) ==
    IF ge.game_state \notin {"WaitingForDeposits", "WaitingForPlayers"}
    THEN Abort(ge, vault, "InvalidGameStateForDeposit")
    ELSE IF player_key # ge.player_white /\ player_key # ge.player_black
    THEN Abort(ge, vault, "UnauthorizedPlayer")
    ELSE
    LET is_white == player_key = ge.player_white IN
    IF (IF is_white THEN ge.white_deposited ELSE ge.black_deposited)
    THEN Abort(ge, vault, "AlreadyDeposited")
    ELSE IF rail_fail = 1
    THEN [Abort(ge, vault, "TransferFailed")
            EXCEPT !.game_escrow = update_deposit_status(ge, is_white, now)]
    ELSE Commit(update_deposit_status(ge, is_white, now),
                vault + ge.stake_amount, 0, 0, 0)

\* A deposit_stake that sends the fee on the stake to the collector at once.
deposit_stake_call_fee_up_front(ge, vault, now, player_key, rail_fail) ==
    IF ge.game_state \notin {"WaitingForDeposits", "WaitingForPlayers"}
    THEN Abort(ge, vault, "InvalidGameStateForDeposit")
    ELSE IF player_key # ge.player_white /\ player_key # ge.player_black
    THEN Abort(ge, vault, "UnauthorizedPlayer")
    ELSE
    LET is_white == player_key = ge.player_white IN
    IF (IF is_white THEN ge.white_deposited ELSE ge.black_deposited)
    THEN Abort(ge, vault, "AlreadyDeposited")
    ELSE IF rail_fail = 1
    THEN Abort(ge, vault, "TransferFailed")
    ELSE Commit(update_deposit_status(ge, is_white, now),
                vault + ge.stake_amount - ge.stake_amount \div 100,
                ge.stake_amount \div 100, 0, 0)

\* rail_fail = 1: the transfer of the stake from the player is refused.
deposit_stake_call(ge, vault, now, player_key, rail_fail) ==
    IF ge.game_state \notin {"WaitingForDeposits", "WaitingForPlayers"}
    THEN Abort(ge, vault, "InvalidGameStateForDeposit")
    ELSE IF player_key # ge.player_white /\ player_key # ge.player_black
    THEN Abort(ge, vault, "UnauthorizedPlayer")
    ELSE
    LET is_white == player_key = ge.player_white IN
    IF (IF is_white THEN ge.white_deposited ELSE ge.black_deposited)
    THEN Abort(ge, vault, "AlreadyDeposited")
    ELSE IF rail_fail = 1
    THEN Abort(ge, vault, "TransferFailed")
    ELSE Commit(update_deposit_status(ge, is_white, now),
                vault + ge.stake_amount, 0, 0, 0)

----------------------------------------------------------------------------
(* Anti-cheat helpers *)

byte_a == 97
byte_h == 104
byte_1 == 49
byte_8 == 56

is_impossible_move(from, to) ==
    IF from = to THEN TRUE
    ELSE IF Len(from) # 2 \/ Len(to) # 2 THEN TRUE
    ELSE IF from[1] < byte_a \/ from[1] > byte_h \/ from[2] < byte_1 \/ from[2] > byte_8
    THEN TRUE
    ELSE IF to[1] < byte_a \/ to[1] > byte_h \/ to[2] < byte_1 \/ to[2] > byte_8
    THEN TRUE
    ELSE FALSE

is_suspicious_move_pattern(ge) ==
    IF Len(ge.move_history) < 3 THEN FALSE
    ELSE
    LET n == Len(ge.move_history)
        recent_moves == SubSeq(ge.move_history, n - 2, n)
    IN \E i \in 2..Len(recent_moves) :
           recent_moves[i].timestamp - recent_moves[i - 1].timestamp < 1

\* anti_cheat_flags |= 1
SetBit1(flags) == IF flags % 2 = 1 THEN flags ELSE flags + 1

----------------------------------------------------------------------------
(* record_move *)

MaxNotationLen == 10

\* record_move after its state guard.
record_move_in_progress(ge, vault, now, player_key, move_notation, from_square, to_square, is_checkmate) ==
    IF player_key # ge.player_white /\ player_key # ge.player_black
    THEN Abort(ge, vault, "UnauthorizedPlayer")
    ELSE IF Len(move_notation) > MaxNotationLen
    THEN Abort(ge, vault, "MoveNotationTooLong")
    ELSE
    LET is_white_turn == ge.move_count % 2 = 0
        is_white_player == player_key = ge.player_white
        time_elapsed == now - ge.last_move_time
        max_time == ge.time_control.initial_time + ge.time_control.increment
    IN
    IF is_white_turn # is_white_player
    THEN Abort(ge, vault, "NotPlayerTurn")
    ELSE IF ge.time_control.initial_time > 0 /\ ~(time_elapsed <= max_time)
    THEN Abort(ge, vault, "MoveTimeExceeded")
    ELSE IF ge.enable_anti_cheat /\ ~(Len(from_square) = 2 /\ Len(to_square) = 2)
    THEN Abort(ge, vault, "InvalidMoveFormat")
    ELSE IF ge.enable_anti_cheat /\ is_impossible_move(from_square, to_square)
    THEN Abort(ge, vault, "ImpossibleMove")
    ELSE
    LET ge1 == IF ge.enable_anti_cheat /\ is_suspicious_move_pattern(ge)
               THEN [ge EXCEPT !.anti_cheat_flags = SetBit1(@)]
               ELSE ge
        move_record == [move_number |-> ge.move_count + 1,
                        from_square |-> from_square,
                        to_square |-> to_square,
                        move_notation |-> move_notation,
                        timestamp |-> now,
                        is_checkmate |-> is_checkmate]
        ge2 == [ge1 EXCEPT !.move_history = Append(@, move_record),
                           !.move_count = @ + 1,
                           !.last_move_time = now]
        ge3 == IF is_checkmate
               THEN [ge2 EXCEPT !.game_state = "Finished",
                                !.winner = IF is_white_player THEN "White" ELSE "Black",
                                !.finished_at = now]
               ELSE ge2
    IN Commit(ge3, vault, 0, 0, 0)

\* A record_move that does not look at game_state.
record_move_call_unguarded(ge, vault, now, player_key, move_notation, from_square, to_square, is_checkmate) ==
    record_move_in_progress(ge, vault, now, player_key, move_notation,
                            from_square, to_square, is_checkmate)

\* A record_move that takes the mover from the parity of move_count, so that
\* either participant can record the move that is due.
record_move_call_any_turn(ge, vault, now, player_key, move_notation, from_square, to_square, is_checkmate) ==
    IF ge.game_state # "InProgress"
    THEN Abort(ge, vault, "GameNotInProgress")
    ELSE
    LET mover == IF ge.move_count % 2 = 0 THEN ge.player_white ELSE ge.player_black
        signer == IF player_key \in {ge.player_white, ge.player_black}
                  THEN mover ELSE player_key
    IN record_move_in_progress(ge, vault, now, signer, move_notation,
                               from_square, to_square, is_checkmate)

\* A record_move that forfeits the game of a player who moves too late.
record_move_call_forfeits_on_time(ge, vault, now, player_key, move_notation, from_square, to_square, is_checkmate) ==
    IF ge.game_state # "InProgress"
    THEN Abort(ge, vault, "GameNotInProgress")
    ELSE
    LET r == record_move_in_progress(ge, vault, now, player_key, move_notation,
                                     from_square, to_square, is_checkmate)
    IN IF r.err = "MoveTimeExceeded"
       THEN [r EXCEPT !.game_escrow =
                [ge EXCEPT !.game_state = "Finished",
                           !.winner = IF player_key = ge.player_white
                                      THEN "Black" ELSE "White",
                           !.finished_at = now]]
       ELSE r

\* A record_move whose checkmate is scored for the opponent of the mover.
record_move_call_checkmate_to_opponent(ge, vault, now, player_key, move_notation, from_square, to_square, is_checkmate) ==
    IF ge.game_state # "InProgress"
    THEN Abort(ge, vault, "GameNotInProgress")
    ELSE
    LET r == record_move_in_progress(ge, vault, now, player_key, move_notation,
                                     from_square, to_square, is_checkmate)
    IN IF r.err = "Ok" /\ is_checkmate
       THEN [r EXCEPT !.game_escrow.winner =
                IF player_key = ge.player_white THEN "Black" ELSE "White"]
       ELSE r

\* A record_move that refuses the move of a player under suspicion.
record_move_call_penalises_suspicion(ge, vault, now, player_key, move_notation, from_square, to_square, is_checkmate) ==
    IF ge.game_state # "InProgress"
    THEN Abort(ge, vault, "GameNotInProgress")
    ELSE
    LET r == record_move_in_progress(ge, vault, now, player_key, move_notation,
                                     from_square, to_square, is_checkmate)
    IN IF r.err = "Ok" /\ ge.enable_anti_cheat /\ is_suspicious_move_pattern(ge)
       THEN Abort(ge, vault, "SuspiciousActivity")
       ELSE r

\* A record_move that keeps only the three most recent records of the log.
record_move_call_keeps_recent(ge, vault, now, player_key, move_notation, from_square, to_square, is_checkmate) ==
    IF ge.game_state # "InProgress"
    THEN Abort(ge, vault, "GameNotInProgress")
    ELSE
    LET r == record_move_in_progress(ge, vault, now, player_key, move_notation,
                                     from_square, to_square, is_checkmate)
        n == Len(r.game_escrow.move_history)
    IN IF r.err = "Ok" /\ n > 3
       THEN [r EXCEPT !.game_escrow.move_history = SubSeq(@, n - 2, n)]
       ELSE r

\* A record_move whose checkmate finishes the session and names no winner.
record_move_call_winner_forgotten(ge, vault, now, player_key, move_notation, from_square, to_square, is_checkmate) ==
    IF ge.game_state # "InProgress"
    THEN Abort(ge, vault, "GameNotInProgress")
    ELSE
    LET r == record_move_in_progress(ge, vault, now, player_key, move_notation,
                                     from_square, to_square, is_checkmate)
    IN IF r.err = "Ok" /\ is_checkmate
       THEN [r EXCEPT !.game_escrow.winner = "None"]
       ELSE r

record_move_call(ge, vault, now, player_key, move_notation, from_square, to_square, is_checkmate) ==
    IF ge.game_state # "InProgress"
    THEN Abort(ge, vault, "GameNotInProgress")
    ELSE record_move_in_progress(ge, vault, now, player_key, move_notation,
                                 from_square, to_square, is_checkmate)

----------------------------------------------------------------------------
(* distribute_funds *)

FeePercent == 1
FeeDivisor == 100

\* A fee of 10% instead of 1%.
fee_amount_ten_percent(vault_balance) == (vault_balance * 10) \div FeeDivisor

\* vault_balance.checked_mul(1).and_then(|x| x.checked_div(100)).unwrap_or(0)
fee_amount(vault_balance) == (vault_balance * FeePercent) \div FeeDivisor

remaining_amount(vault_balance) == vault_balance - fee_amount(vault_balance)

\* One system_program::transfer out of the vault.
Transfer(to, amount) == [to |-> to, amount |-> amount]

\* The transfers in ts are issued in order; the rail_fail-th is refused.
\* The result tells what was moved before the call returned.
IssueTransfers(ts, rail_fail) ==
    LET failed == rail_fail \in 1..Len(ts)
        done == IF failed THEN SubSeq(ts, 1, rail_fail - 1) ELSE ts
        Sum(to) == LET RECURSIVE S(_)
                       S(i) == IF i = 0 THEN 0
                               ELSE S(i - 1) + (IF done[i].to = to THEN done[i].amount ELSE 0)
                   IN S(Len(done))
    IN [err |-> IF failed THEN "TransferFailed" ELSE "Ok",
        fee |-> Sum("fee_collector"),
        to_white |-> Sum("player_white"),
        to_black |-> Sum("player_black")]

\* A draw split that rounds white's half up instead of leaving the odd unit.
DeclareResult_distribute_funds_white_rounds_up(winner, vault_balance, rail_fail) ==
    IF vault_balance = 0
    THEN [err |-> "Ok", fee |-> 0, to_white |-> 0, to_black |-> 0]
    ELSE
    LET fee == fee_amount(vault_balance)
        remaining == remaining_amount(vault_balance)
        half_amount == remaining \div 2
        fee_transfer == IF fee > 0 THEN <<Transfer("fee_collector", fee)>> ELSE <<>>
        payouts ==
            CASE winner = "White" -> <<Transfer("player_white", remaining)>>
              [] winner = "Black" -> <<Transfer("player_black", remaining)>>
              [] winner = "Draw" ->
                   <<Transfer("player_white", remaining - half_amount),
                     Transfer("player_black", half_amount)>>
              [] OTHER -> <<>>
    IN IssueTransfers(fee_transfer \o payouts, rail_fail)

DeclareResult_distribute_funds(winner, vault_balance, rail_fail) ==
    IF vault_balance = 0
    THEN [err |-> "Ok", fee |-> 0, to_white |-> 0, to_black |-> 0]
    ELSE
    LET fee == fee_amount(vault_balance)
        remaining == remaining_amount(vault_balance)
        half_amount == remaining \div 2
        fee_transfer == IF fee > 0 THEN <<Transfer("fee_collector", fee)>> ELSE <<>>
        payouts ==
            CASE winner = "White" ->
                   IF remaining > 0 THEN <<Transfer("player_white", remaining)>> ELSE <<>>
              [] winner = "Black" ->
                   IF remaining > 0 THEN <<Transfer("player_black", remaining)>> ELSE <<>>
              [] winner = "Draw" ->
                   IF half_amount > 0
                   THEN <<Transfer("player_white", half_amount),
                          Transfer("player_black", half_amount)>>
                   ELSE <<>>
              [] OTHER -> <<>>
        issued == IssueTransfers(fee_transfer \o payouts, rail_fail)
    IN IF issued.err = "Ok" /\ winner = "None"
       THEN [issued EXCEPT !.err = "InvalidWinnerDeclaration"]
       ELSE issued

\* A timeout settlement that pays the player who ran out of time.
HandleTimeout_distribute_funds_pays_loser(winner, vault_balance, rail_fail) ==
    LET fee == fee_amount(vault_balance)
        remaining == remaining_amount(vault_balance)
    IN IssueTransfers(<<Transfer("fee_collector", fee),
                        Transfer(IF winner = "White" THEN "player_black"
                                 ELSE "player_white", remaining)>>, rail_fail)

HandleTimeout_distribute_funds(winner, vault_balance, rail_fail) ==
    IF vault_balance = 0
    THEN [err |-> "Ok", fee |-> 0, to_white |-> 0, to_black |-> 0]
    ELSE
    LET fee == fee_amount(vault_balance)
        remaining == remaining_amount(vault_balance)
        fee_transfer == IF fee > 0 THEN <<Transfer("fee_collector", fee)>> ELSE <<>>
        payouts ==
            CASE winner = "White" ->
                   IF remaining > 0 THEN <<Transfer("player_white", remaining)>> ELSE <<>>
              [] winner = "Black" ->
                   IF remaining > 0 THEN <<Transfer("player_black", remaining)>> ELSE <<>>
              [] OTHER -> <<>>
        issued == IssueTransfers(fee_transfer \o payouts, rail_fail)
    IN IF issued.err = "Ok" /\ winner \notin {"White", "Black"}
       THEN [issued EXCEPT !.err = "InvalidWinnerDeclaration"]
       ELSE issued

----------------------------------------------------------------------------
(* declare_result *)

\* A validation that lets either player claim any win on time.
validate_declaration_timeout_by_anyone(ge, declarer, winner, reason) ==
    CASE winner \in {"White", "Black"} ->
           IF \/ reason = "Timeout"
              \/ (reason = "Resignation"
                    /\ declarer = (IF winner = "White" THEN ge.player_black
                                   ELSE ge.player_white))
              \/ (reason = "Checkmate"
                    /\ declarer = (IF winner = "White" THEN ge.player_white
                                   ELSE ge.player_black))
           THEN "Ok" ELSE "InvalidWinnerDeclaration"
      [] winner = "Draw" ->
           IF reason = "Agreement" \/ reason = "Stalemate"
           THEN "Ok" ELSE "InvalidDrawDeclaration"
      [] OTHER -> "InvalidWinnerDeclaration"

\* The match on winner that validates the declaration; "Ok" when it passes.
validate_declaration(ge, declarer, winner, reason) ==
    CASE winner = "White" ->
           IF \/ (reason = "Resignation" /\ declarer = ge.player_black)
              \/ (reason = "Timeout" /\ declarer = ge.player_white)
              \/ (reason = "Checkmate" /\ declarer = ge.player_white)
           THEN "Ok" ELSE "InvalidWinnerDeclaration"
      [] winner = "Black" ->
           IF \/ (reason = "Resignation" /\ declarer = ge.player_white)
              \/ (reason = "Timeout" /\ declarer = ge.player_black)
              \/ (reason = "Checkmate" /\ declarer = ge.player_black)
           THEN "Ok" ELSE "InvalidWinnerDeclaration"
      [] winner = "Draw" ->
           IF reason = "Agreement" \/ reason = "Stalemate"
           THEN "Ok" ELSE "InvalidDrawDeclaration"
      [] OTHER -> "InvalidWinnerDeclaration"

\* A settlement whose writes and transfers survive a failed transfer.
declare_result_settle_no_rollback(ge, vault, now, winner, rail_fail) ==
    LET ge1 == [ge EXCEPT !.winner = winner,
                          !.game_state = "Finished",
                          !.finished_at = now]
        d == DeclareResult_distribute_funds(winner, vault, rail_fail)
    IN [err |-> d.err, game_escrow |-> ge1,
        game_vault |-> vault - d.fee - d.to_white - d.to_black,
        fee |-> d.fee, to_white |-> d.to_white, to_black |-> d.to_black]

\* A settlement that records the winner and pays, and leaves game_state.
declare_result_settle_state_forgotten(ge, vault, now, winner, rail_fail) ==
    LET ge1 == [ge EXCEPT !.winner = winner, !.finished_at = now]
        d == DeclareResult_distribute_funds(winner, vault, rail_fail)
    IN IF d.err # "Ok"
       THEN Abort(ge, vault, d.err)
       ELSE Commit(ge1, vault - d.fee - d.to_white - d.to_black,
                   d.fee, d.to_white, d.to_black)

\* The accepted declaration: the session is marked Finished, then the funds
\* are distributed; an Err of distribute_funds is returned by the instruction.
declare_result_settle(ge, vault, now, winner, rail_fail) ==
    LET ge1 == [ge EXCEPT !.winner = winner,
                          !.game_state = "Finished",
                          !.finished_at = now]
        d == DeclareResult_distribute_funds(winner, vault, rail_fail)
    IN IF d.err # "Ok"
       THEN Abort(ge, vault, d.err)
       ELSE Commit(ge1, vault - d.fee - d.to_white - d.to_black,
                   d.fee, d.to_white, d.to_black)

declare_result_call(ge, vault, now, declarer, winner, reason, rail_fail) ==
    IF ge.game_state # "InProgress"
    THEN Abort(ge, vault, "GameNotInProgress")
    ELSE IF declarer # ge.player_white /\ declarer # ge.player_black
    THEN Abort(ge, vault, "UnauthorizedPlayer")
    ELSE IF validate_declaration(ge, declarer, winner, reason) # "Ok"
    THEN Abort(ge, vault, validate_declaration(ge, declarer, winner, reason))
    ELSE declare_result_settle(ge, vault, now, winner, rail_fail)

----------------------------------------------------------------------------
(* handle_timeout *)

\* A handle_timeout that fires as soon as the elapsed time reaches the limit.
handle_timeout_in_progress_at_limit(ge, vault, now, rail_fail) ==
    LET time_elapsed == now - ge.last_move_time IN
    IF ~(time_elapsed >= ge.time_limit_seconds)
    THEN Abort(ge, vault, "TimeNotExceeded")
    ELSE
    LET winner == IF ge.move_count % 2 = 0 THEN "Black" ELSE "White"
        ge1 == [ge EXCEPT !.winner = winner,
                          !.game_state = "Finished",
                          !.finished_at = now]
        d == HandleTimeout_distribute_funds(winner, vault, rail_fail)
    IN IF d.err # "Ok"
       THEN Abort(ge, vault, d.err)
       ELSE Commit(ge1, vault - d.fee - d.to_white - d.to_black,
                   d.fee, d.to_white, d.to_black)

\* A handle_timeout that awards the game to the player on move.
handle_timeout_in_progress_mover_wins(ge, vault, now, rail_fail) ==
    LET time_elapsed == now - ge.last_move_time IN
    IF ~(time_elapsed > ge.time_limit_seconds)
    THEN Abort(ge, vault, "TimeNotExceeded")
    ELSE
    LET winner == IF ge.move_count % 2 = 0 THEN "White" ELSE "Black"
        ge1 == [ge EXCEPT !.winner = winner,
                          !.game_state = "Finished",
                          !.finished_at = now]
        d == HandleTimeout_distribute_funds(winner, vault, rail_fail)
    IN IF d.err # "Ok"
       THEN Abort(ge, vault, d.err)
       ELSE Commit(ge1, vault - d.fee - d.to_white - d.to_black,
                   d.fee, d.to_white, d.to_black)

\* A handle_timeout that is due only once a move has been recorded.
handle_timeout_in_progress_after_first_move(ge, vault, now, rail_fail) ==
    LET time_elapsed == now - ge.last_move_time IN
    IF ~(time_elapsed > ge.time_limit_seconds /\ ge.move_count > 0)
    THEN Abort(ge, vault, "TimeNotExceeded")
    ELSE
    LET winner == IF ge.move_count % 2 = 0 THEN "Black" ELSE "White"
        ge1 == [ge EXCEPT !.winner = winner,
                          !.game_state = "Finished",
                          !.finished_at = now]
        d == HandleTimeout_distribute_funds(winner, vault, rail_fail)
    IN IF d.err # "Ok"
       THEN Abort(ge, vault, d.err)
       ELSE Commit(ge1, vault - d.fee - d.to_white - d.to_black,
                   d.fee, d.to_white, d.to_black)

\* handle_timeout after its state guard.
handle_timeout_in_progress(ge, vault, now, rail_fail) ==
    LET time_elapsed == now - ge.last_move_time IN
    IF ~(time_elapsed > ge.time_limit_seconds)
    THEN Abort(ge, vault, "TimeNotExceeded")
    ELSE
    LET winner == IF ge.move_count % 2 = 0 THEN "Black" ELSE "White"
        ge1 == [ge EXCEPT !.winner = winner,
                          !.game_state = "Finished",
                          !.finished_at = now]
        d == HandleTimeout_distribute_funds(winner, vault, rail_fail)
    IN IF d.err # "Ok"
       THEN Abort(ge, vault, d.err)
       ELSE Commit(ge1, vault - d.fee - d.to_white - d.to_black,
                   d.fee, d.to_white, d.to_black)

\* A handle_timeout that does not look at game_state.
handle_timeout_call_unguarded(ge, vault, now, rail_fail) ==
    handle_timeout_in_progress(ge, vault, now, rail_fail)

handle_timeout_call(ge, vault, now, rail_fail) ==
    IF ge.game_state # "InProgress"
    THEN Abort(ge, vault, "GameNotInProgress")
    ELSE handle_timeout_in_progress(ge, vault, now, rail_fail)

----------------------------------------------------------------------------
(* cancel_game *)

\* A cancel_game that refunds whatever the vault holds to the caller.
cancel_game_not_started_refunds_balance(ge, vault, player_key, rail_fail) ==
    IF player_key # ge.player_white /\ player_key # ge.player_black
    THEN Abort(ge, vault, "UnauthorizedPlayer")
    ELSE
    LET refunds ==
            IF vault > 0
            THEN <<Transfer(IF player_key = ge.player_white
                            THEN "player_white" ELSE "player_black", vault)>>
            ELSE <<>>
        d == IssueTransfers(refunds, rail_fail)
    IN IF d.err # "Ok"
       THEN Abort(ge, vault, d.err)
       ELSE Commit([ge EXCEPT !.game_state = "Cancelled"],
                   vault - d.to_white - d.to_black, 0, d.to_white, d.to_black)

\* A cancel_game that clears the deposit ledger of the stakes it refunds.
cancel_game_not_started_clears_ledger(ge, vault, player_key, rail_fail) ==
    IF player_key # ge.player_white /\ player_key # ge.player_black
    THEN Abort(ge, vault, "UnauthorizedPlayer")
    ELSE
    LET refunds ==
            IF vault > 0
            THEN (IF ge.white_deposited
                  THEN <<Transfer("player_white", ge.stake_amount)>> ELSE <<>>)
                 \o (IF ge.black_deposited
                     THEN <<Transfer("player_black", ge.stake_amount)>> ELSE <<>>)
            ELSE <<>>
        d == IssueTransfers(refunds, rail_fail)
    IN IF d.err # "Ok"
       THEN Abort(ge, vault, d.err)
       ELSE Commit([ge EXCEPT !.game_state = "Cancelled",
                              !.white_deposited = FALSE,
                              !.black_deposited = FALSE,
                              !.total_deposited = 0],
                   vault - d.to_white - d.to_black, 0, d.to_white, d.to_black)

\* cancel_game after its state guard.
cancel_game_not_started(ge, vault, player_key, rail_fail) ==
    IF player_key # ge.player_white /\ player_key # ge.player_black
    THEN Abort(ge, vault, "UnauthorizedPlayer")
    ELSE
    LET refunds ==
            IF vault > 0
            THEN (IF ge.white_deposited
                  THEN <<Transfer("player_white", ge.stake_amount)>> ELSE <<>>)
                 \o (IF ge.black_deposited
                     THEN <<Transfer("player_black", ge.stake_amount)>> ELSE <<>>)
            ELSE <<>>
        d == IssueTransfers(refunds, rail_fail)
    IN IF d.err # "Ok"
       THEN Abort(ge, vault, d.err)
       ELSE Commit([ge EXCEPT !.game_state = "Cancelled"],
                   vault - d.to_white - d.to_black, 0, d.to_white, d.to_black)

\* A cancel_game that does not look at game_state.
cancel_game_call_unguarded(ge, vault, player_key, rail_fail) ==
    cancel_game_not_started(ge, vault, player_key, rail_fail)

\* A cancel_game that is refused only once the session is over.
cancel_game_call_until_over(ge, vault, player_key, rail_fail) ==
    IF ge.game_state \in {"Finished", "Cancelled"}
    THEN Abort(ge, vault, "CannotCancelStartedGame")
    ELSE cancel_game_not_started(ge, vault, player_key, rail_fail)

\* A cancel_game that anyone can call for the creator of the session.
cancel_game_call_by_anyone(ge, vault, player_key, rail_fail) ==
    IF ge.game_state \notin {"WaitingForPlayers", "WaitingForDeposits"}
    THEN Abort(ge, vault, "CannotCancelStartedGame")
    ELSE cancel_game_not_started(ge, vault,
             IF player_key \in {ge.player_white, ge.player_black}
             THEN player_key ELSE ge.player_white, rail_fail)

cancel_game_call(ge, vault, player_key, rail_fail) ==
    IF ge.game_state \notin {"WaitingForPlayers", "WaitingForDeposits"}
    THEN Abort(ge, vault, "CannotCancelStartedGame")
    ELSE cancel_game_not_started(ge, vault, player_key, rail_fail)

----------------------------------------------------------------------------
(* The state machine *)

Init ==
    /\ \E stake_amount \in StakeAmounts, time_limit_seconds \in TimeLimits :
         game_escrow = initialize_game(Creator, FeeCollector, stake_amount,
                                       time_limit_seconds, StartTime)
    /\ game_vault = 0
    /\ clock = StartTime
    /\ last = [op |-> "initialize_game", err |-> "Ok", vault_before |-> 0,
               fee |-> 0, to_white |-> 0, to_black |-> 0]
    /\ distributions = 0

\* The state after instruction op with outcome r.
Executed(op, r) ==
    /\ game_escrow' = r.game_escrow
    /\ game_vault' = r.game_vault
    /\ last' = [op |-> op, err |-> r.err, vault_before |-> game_vault,
                fee |-> r.fee, to_white |-> r.to_white, to_black |-> r.to_black]
    /\ UNCHANGED clock

join_game ==
    \E player \in Signers :
        /\ Executed("join_game", join_game_call(game_escrow, game_vault, player))
        /\ UNCHANGED distributions

deposit_stake ==
    \E player \in Signers, rail_fail \in RailFailures :
        /\ Executed("deposit_stake",
                    deposit_stake_call(game_escrow, game_vault, clock, player, rail_fail))
        /\ UNCHANGED distributions

record_move ==
    /\ game_escrow.move_count < MaxMoves
    /\ \E player \in Signers, move_notation \in MoveNotations,
          from_square \in FromSquares, to_square \in ToSquares,
          is_checkmate \in BOOLEAN :
          Executed("record_move",
                   record_move_call(game_escrow, game_vault, clock, player,
                                    move_notation, from_square, to_square,
                                    is_checkmate))
    /\ UNCHANGED distributions

\* distribute_funds is called once by each settlement that passes its guards;
\* the call counts when it returned Ok.
declare_result ==
    \E player \in Signers, winner \in GameWinners, reason \in GameEndReasons,
       rail_fail \in RailFailures :
        LET r == declare_result_call(game_escrow, game_vault, clock, player,
                                     winner, reason, rail_fail)
        IN /\ Executed("declare_result", r)
           /\ distributions' = IF r.err = "Ok" THEN distributions + 1 ELSE distributions

\* HandleTimeout has no signer account: the caller is no input of it.
handle_timeout ==
    \E rail_fail \in RailFailures :
        LET r == handle_timeout_call(game_escrow, game_vault, clock, rail_fail)
        IN /\ Executed("handle_timeout", r)
           /\ distributions' = IF r.err = "Ok" THEN distributions + 1 ELSE distributions

cancel_game ==
    \E player \in Signers, rail_fail \in RailFailures :
        /\ Executed("cancel_game",
                    cancel_game_call(game_escrow, game_vault, player, rail_fail))
        /\ UNCHANGED distributions

Tick ==
    /\ clock < MaxTime
    /\ clock' = clock + 1
    /\ UNCHANGED <<game_escrow, game_vault, last, distributions>>

Next ==
    \/ join_game
    \/ deposit_stake
    \/ record_move
    \/ declare_result
    \/ handle_timeout
    \/ cancel_game
    \/ Tick

Spec == Init /\ [][Next]_vars

----------------------------------------------------------------------------
(* The session under a clock that keeps advancing and a caller that keeps   *)
(* invoking handle_timeout, with transfers that succeed                     *)

\* The clock goes on past MaxTime for as long as the player to move of a
\* session in progress is within the time limit.
Overtime ==
    /\ clock >= MaxTime
    /\ game_escrow.game_state = "InProgress"
    /\ clock - game_escrow.last_move_time <= game_escrow.time_limit_seconds
    /\ clock' = clock + 1
    /\ UNCHANGED <<game_escrow, game_vault, last, distributions>>

\* A handle_timeout that returns Ok, none of its transfers being refused.
HandleTimeoutPaid ==
    LET r == handle_timeout_call(game_escrow, game_vault, clock, 0)
    IN /\ r.err = "Ok"
       /\ Executed("handle_timeout", r)
       /\ distributions' = distributions + 1

\* What the participants and the outsider submit in LiveSpec: the calls that
\* can change the session, and of the calls that are only refused a sample.
LiveMoveNotation == [i \in 1..10 |-> 120]
LiveFromSquare == <<101, 50>>
LiveToSquare == <<101, 52>>
LiveDeclarations ==
    {<<"White", "Resignation">>, <<"Black", "Resignation">>, <<"Draw", "Agreement">>,
     <<"White", "Timeout">>, <<"Black", "Checkmate">>}
LiveRailFailures == {0, 1}

\* The instructions of Next, submitted while clock <= MaxTime; past MaxTime
\* only the clock and handle_timeout go on.
LiveNext ==
    \/ /\ clock <= MaxTime
       /\ \E player \in Signers :
            /\ Executed("join_game", join_game_call(game_escrow, game_vault, player))
            /\ UNCHANGED distributions
    \/ /\ clock <= MaxTime
       /\ \E player \in Signers, rail_fail \in LiveRailFailures :
            /\ Executed("deposit_stake",
                        deposit_stake_call(game_escrow, game_vault, clock, player,
                                           rail_fail))
            /\ UNCHANGED distributions
    \/ /\ clock <= MaxTime
       /\ game_escrow.move_count < MaxMoves
       /\ \E player \in Signers, is_checkmate \in BOOLEAN :
            /\ Executed("record_move",
                        record_move_call(game_escrow, game_vault, clock, player,
                                         LiveMoveNotation, LiveFromSquare,
                                         LiveToSquare, is_checkmate))
            /\ UNCHANGED distributions
    \/ /\ clock <= MaxTime
       /\ \E player \in Signers, d \in LiveDeclarations,
             rail_fail \in LiveRailFailures :
            LET r == declare_result_call(game_escrow, game_vault, clock, player,
                                         d[1], d[2], rail_fail)
            IN /\ Executed("declare_result", r)
               /\ distributions' = IF r.err = "Ok" THEN distributions + 1
                                   ELSE distributions
    \/ /\ clock <= MaxTime
       /\ \E player \in Signers, rail_fail \in LiveRailFailures :
            /\ Executed("cancel_game",
                        cancel_game_call(game_escrow, game_vault, player, rail_fail))
            /\ UNCHANGED distributions
    \/ handle_timeout
    \/ Tick
    \/ Overtime

LiveSpec ==
    /\ Init /\ [][LiveNext]_vars
    /\ WF_vars(Tick) /\ WF_vars(Overtime)
    /\ WF_vars(HandleTimeoutPaid)

----------------------------------------------------------------------------
(* Vocabulary of the properties *)

SettlementOps == {"declare_result", "handle_timeout"}

\* The last instruction was a settlement that returned Ok.
Settled == last.op \in SettlementOps /\ last.err = "Ok"

\* What the last instruction paid to the two players together.
PaidToPlayers == last.to_white + last.to_black

\* This step executes an instruction (last' describes it), not a clock tick.
InstructionStep == clock' = clock

Terminal == {"Finished", "Cancelled"}

----------------------------------------------------------------------------
(* C1: in every state with game_state = Finished the funds have been       *)
(* distributed exactly once, whichever operation finished the session, so  *)
(* the vault holds at most the rounding unit of a draw split.              *)
C1_FinishedMeansDistributedOnce ==
    game_escrow.game_state = "Finished" =>
        (distributions = 1 /\ game_vault <= 1)

(* C2: once the session is Finished every declare_result or handle_timeout *)
(* fails with GameNotInProgress and moves nothing, and a settlement that   *)
(* moves funds out of the vault is the first one to do so.                 *)
C2_OnePayout ==
    [][ (InstructionStep /\ last'.op \in SettlementOps) =>
          /\ game_escrow.game_state = "Finished" =>
                /\ last'.err = "GameNotInProgress"
                /\ game_vault' = game_vault
                /\ last'.fee = 0 /\ last'.to_white = 0 /\ last'.to_black = 0
          /\ game_vault' # game_vault => distributions = 0
      ]_vars

C2_Witness ==
    /\ game_escrow.game_state = "Finished"
    /\ distributions = 1
    /\ last.op \in SettlementOps
    /\ last.err = "GameNotInProgress"

(* C3 as claimed: every settlement of custody C pays floor(C/100) to the   *)
(* fee collector, and fee plus the payouts to the players is exactly C.    *)
C3_FeePlusPayoutsIsCustody ==
    Settled =>
        /\ last.fee = last.vault_before \div 100
        /\ last.fee + PaidToPlayers = last.vault_before

(* C3 as amended: the fee is floor(C/100); with winner White or Black fee  *)
(* plus payout is exactly C; with a Draw fee plus payouts is C less the    *)
(* odd unit of the remainder C - floor(C/100), which no one is paid.       *)
C3_FeeLaw ==
    Settled =>
        LET C == last.vault_before
            remainder == C - (C \div 100)
        IN /\ last.fee = C \div 100
           /\ game_escrow.winner \in {"White", "Black"} =>
                 last.fee + PaidToPlayers = C
           /\ game_escrow.winner = "Draw" =>
                 last.fee + PaidToPlayers = C - (remainder % 2)

C3_Witness ==
    /\ Settled
    /\ game_escrow.winner = "Draw"
    /\ last.fee + PaidToPlayers = last.vault_before - 1

(* C4: a Draw settled by declare_result pays each player                   *)
(* floor((C - floor(C/100)) / 2); an odd remainder leaves exactly one unit *)
(* in the vault, and the declaration of a draw is not refused for it.      *)
C4_DrawSplit ==
    /\ (last.op = "declare_result" /\ last.err = "Ok"
            /\ game_escrow.winner = "Draw") =>
          LET C == last.vault_before
              remainder == C - (C \div 100)
          IN /\ last.to_white = remainder \div 2
             /\ last.to_black = remainder \div 2
             /\ game_vault = (IF remainder % 2 = 1 THEN 1 ELSE 0)
    /\ game_escrow.game_state = "InProgress" =>
          \A reason \in {"Agreement", "Stalemate"} :
              declare_result_call(game_escrow, game_vault, clock,
                                  game_escrow.player_white, "Draw", reason, 0).err
                  = "Ok"

C4_Witness ==
    /\ last.op = "declare_result" /\ last.err = "Ok"
    /\ game_escrow.winner = "Draw"
    /\ last.vault_before = 100
    /\ last.to_white = 49 /\ last.to_black = 49
    /\ game_vault = 1

(* C5: a settlement with winner White or Black pays floor(C/100) to the    *)
(* fee collector and C - floor(C/100) to the winner, nothing to the loser, *)
(* empties the vault and leaves game_state Finished.                       *)
C5_WinnerTakesRemainder ==
    (Settled /\ game_escrow.winner \in {"White", "Black"}) =>
        LET C == last.vault_before
            to_winner == IF game_escrow.winner = "White"
                         THEN last.to_white ELSE last.to_black
            to_loser == IF game_escrow.winner = "White"
                        THEN last.to_black ELSE last.to_white
        IN /\ last.fee = C \div 100
           /\ to_winner = C - (C \div 100)
           /\ to_loser = 0
           /\ game_vault = 0
           /\ game_escrow.game_state = "Finished"

C5_Witness ==
    /\ Settled
    /\ game_escrow.winner = "White"
    /\ game_escrow.stake_amount = 1000
    /\ last.fee = 20 /\ last.to_white = 1980 /\ last.to_black = 0
    /\ game_vault = 0

C7_TotalDepositedMatchesFlags ==
    game_escrow.total_deposited =
        game_escrow.stake_amount
            * ((IF game_escrow.white_deposited THEN 1 ELSE 0)
               + (IF game_escrow.black_deposited THEN 1 ELSE 0))

C7_Witness ==
    /\ game_escrow.game_state = "Cancelled"
    /\ game_escrow.white_deposited /\ ~game_escrow.black_deposited
    /\ game_escrow.total_deposited = game_escrow.stake_amount
    /\ last.to_white = game_escrow.stake_amount

(* C8: every change of game_state is an edge of the lifecycle graph, made  *)
(* by the operation that owns the edge.                                    *)
LifecycleEdges ==
    {<<"WaitingForPlayers", "WaitingForDeposits", "join_game">>,
     <<"WaitingForDeposits", "InProgress", "deposit_stake">>,
     <<"InProgress", "Finished", "record_move">>,
     <<"InProgress", "Finished", "declare_result">>,
     <<"InProgress", "Finished", "handle_timeout">>,
     <<"WaitingForPlayers", "Cancelled", "cancel_game">>,
     <<"WaitingForDeposits", "Cancelled", "cancel_game">>}

C8_LifecycleGraph ==
    [][ game_escrow'.game_state # game_escrow.game_state =>
          /\ <<game_escrow.game_state, game_escrow'.game_state, last'.op>>
                \in LifecycleEdges
          /\ last'.op = "record_move" =>
                game_escrow'.move_history[Len(game_escrow'.move_history)].is_checkmate
      ]_vars

C8_Witness ==
    /\ game_escrow.game_state = "Finished"
    /\ last.op = "record_move" /\ last.err = "Ok"

(* C9: from a Finished or Cancelled session no operation changes winner,   *)
(* move_history, move_count, the deposited flags, total_deposited or the   *)
(* vault balance.                                                          *)
C9_TerminalIsFrozen ==
    [][ game_escrow.game_state \in Terminal =>
          /\ game_escrow'.winner = game_escrow.winner
          /\ game_escrow'.move_history = game_escrow.move_history
          /\ game_escrow'.move_count = game_escrow.move_count
          /\ game_escrow'.white_deposited = game_escrow.white_deposited
          /\ game_escrow'.black_deposited = game_escrow.black_deposited
          /\ game_escrow'.total_deposited = game_escrow.total_deposited
          /\ game_vault' = game_vault
      ]_vars

C9_Witness ==
    /\ game_escrow.game_state \in Terminal
    /\ last.op = "record_move"
    /\ last.err = "GameNotInProgress"

(* C10: in InProgress a participant's declaration is accepted exactly when *)
(* (winner, reason, declarer) is in the authorization matrix; any other    *)
(* triple is rejected and changes nothing.                                 *)
AuthorizationMatrix ==
    {<<"White", "Resignation", "black">>,
     <<"White", "Timeout", "white">>,
     <<"White", "Checkmate", "white">>,
     <<"Black", "Resignation", "white">>,
     <<"Black", "Timeout", "black">>,
     <<"Black", "Checkmate", "black">>,
     <<"Draw", "Agreement", "white">>,
     <<"Draw", "Agreement", "black">>,
     <<"Draw", "Stalemate", "white">>,
     <<"Draw", "Stalemate", "black">>}

DeclarationErrors == {"InvalidWinnerDeclaration", "InvalidDrawDeclaration"}

C11_NoTimeoutBeforeBudget ==
    (game_escrow.game_state = "InProgress"
        /\ clock - game_escrow.last_move_time <= game_escrow.time_limit_seconds) =>
        /\ \A rail_fail \in RailFailures :
              handle_timeout_call(game_escrow, game_vault, clock, rail_fail).err # "Ok"
        /\ \A declarer \in Signers, winner \in GameWinners, rail_fail \in RailFailures :
              declare_result_call(game_escrow, game_vault, clock, declarer,
                                  winner, "Timeout", rail_fail).err # "Ok"

(* C12: handle_timeout returns Ok only when now - last_move_time is        *)
(* strictly greater than time_limit_seconds; called in InProgress with the *)
(* elapsed time at or below the limit it returns TimeNotExceeded and the   *)
(* session (InProgress, winner None) and the vault are unchanged.          *)
C12_TimeoutIsStrict ==
    [][ (InstructionStep /\ last'.op = "handle_timeout") =>
          LET time_elapsed == clock - game_escrow.last_move_time IN
          /\ last'.err = "Ok" => time_elapsed > game_escrow.time_limit_seconds
          /\ (game_escrow.game_state = "InProgress"
                /\ time_elapsed <= game_escrow.time_limit_seconds) =>
                /\ last'.err = "TimeNotExceeded"
                /\ game_escrow' = game_escrow
                /\ game_escrow'.game_state = "InProgress"
                /\ game_escrow'.winner = "None"
                /\ game_vault' = game_vault
      ]_vars

C12_Witness ==
    /\ last.op = "handle_timeout"
    /\ last.err = "TimeNotExceeded"
    /\ game_escrow.game_state = "InProgress"
    /\ clock - game_escrow.last_move_time = game_escrow.time_limit_seconds

(* C13: a successful handle_timeout takes the winner from the parity of    *)
(* move_count alone: even (White to move) gives Black, odd gives White;    *)
(* never Draw or None.                                                     *)
C13_TimeoutWinnerFromParity ==
    [][ (InstructionStep /\ last'.op = "handle_timeout" /\ last'.err = "Ok") =>
          /\ game_escrow.move_count % 2 = 0 => game_escrow'.winner = "Black"
          /\ game_escrow.move_count % 2 = 1 => game_escrow'.winner = "White"
          /\ game_escrow'.winner \notin {"Draw", "None"}
          /\ game_escrow'.move_count = game_escrow.move_count
      ]_vars

C13_Witness ==
    /\ last.op = "handle_timeout" /\ last.err = "Ok"
    /\ game_escrow.move_count % 2 = 1
    /\ game_escrow.winner = "White"

(* C14: a successful cancel_game pays exactly stake_amount to each player  *)
(* whose deposited flag is true, nothing to a player whose flag is false   *)
(* and nothing to the fee collector, sets game_state to Cancelled and      *)
(* leaves none of the deposited stakes in the vault.                       *)
C14_CancelRefundsPerFlag ==
    (last.op = "cancel_game" /\ last.err = "Ok") =>
        /\ last.to_white = (IF game_escrow.white_deposited
                            THEN game_escrow.stake_amount ELSE 0)
        /\ last.to_black = (IF game_escrow.black_deposited
                            THEN game_escrow.stake_amount ELSE 0)
        /\ last.fee = 0
        /\ game_escrow.game_state = "Cancelled"
        /\ game_vault = 0

C14_Witness ==
    /\ last.op = "cancel_game" /\ last.err = "Ok"
    /\ ~game_escrow.white_deposited /\ game_escrow.black_deposited
    /\ last.to_white = 0
    /\ last.to_black = game_escrow.stake_amount
    /\ last.vault_before = game_escrow.stake_amount

HasDeposited(player) ==
    \/ (player = game_escrow.player_white /\ game_escrow.white_deposited)
    \/ (player = game_escrow.player_black /\ game_escrow.black_deposited)

C16_SecondDepositAlreadyDeposited ==
    \A player \in Signers, rail_fail \in RailFailures :
        HasDeposited(player) =>
            LET r == deposit_stake_call(game_escrow, game_vault, clock, player, rail_fail)
            IN /\ r.err = "AlreadyDeposited"
               /\ r.game_escrow = game_escrow
               /\ r.game_vault = game_vault

(* C16 as amended: such a call is always rejected and changes nothing; the *)
(* error is AlreadyDeposited while the session is WaitingForPlayers or     *)
(* WaitingForDeposits and InvalidGameStateForDeposit in any other state,   *)
(* where the state guard comes first.                                      *)
C16_SecondDepositRejected ==
    \A player \in Signers, rail_fail \in RailFailures :
        HasDeposited(player) =>
            LET r == deposit_stake_call(game_escrow, game_vault, clock, player, rail_fail)
            IN /\ r.err = (IF game_escrow.game_state
                                \in {"WaitingForPlayers", "WaitingForDeposits"}
                           THEN "AlreadyDeposited"
                           ELSE "InvalidGameStateForDeposit")
               /\ r.game_escrow = game_escrow
               /\ r.game_vault = game_vault

C16_Witness ==
    /\ last.op = "deposit_stake"
    /\ last.err = "AlreadyDeposited"
    /\ game_escrow.game_state = "WaitingForDeposits"
    /\ game_vault = game_escrow.stake_amount

(* C17: game_state becomes InProgress only in deposit_stake, exactly in    *)
(* the call that makes both deposited flags true, which sets started_at    *)
(* and last_move_time to the current time; so in InProgress and Finished   *)
(* both flags are true and total_deposited = 2 * stake_amount.             *)
BothDeposited(ge) == ge.white_deposited /\ ge.black_deposited

C17_StartOnSecondDeposit ==
    /\ [](game_escrow.game_state \in {"InProgress", "Finished"} =>
            /\ BothDeposited(game_escrow)
            /\ game_escrow.total_deposited = 2 * game_escrow.stake_amount)
    /\ [][ /\ (game_escrow'.game_state = "InProgress"
                 /\ game_escrow.game_state # "InProgress") =>
                 /\ last'.op = "deposit_stake" /\ last'.err = "Ok"
                 /\ BothDeposited(game_escrow') /\ ~BothDeposited(game_escrow)
                 /\ game_escrow'.started_at = clock
                 /\ game_escrow'.last_move_time = clock
           /\ (BothDeposited(game_escrow') /\ ~BothDeposited(game_escrow)) =>
                 /\ last'.op = "deposit_stake"
                 /\ game_escrow'.game_state = "InProgress"
       ]_vars

C17_Witness ==
    /\ game_escrow.game_state = "InProgress"
    /\ last.op = "deposit_stake" /\ last.err = "Ok"
    /\ clock > StartTime
    /\ game_escrow.started_at = clock
    /\ game_escrow.last_move_time = clock
    /\ game_escrow.total_deposited = 2 * game_escrow.stake_amount

(* C18: winner is None in every state whose game_state is not Finished.    *)
C18_WinnerOnlyWhenFinished ==
    game_escrow.game_state # "Finished" => game_escrow.winner = "None"

C18_Witness ==
    /\ last.op = "declare_result" /\ last.err = "Ok"
    /\ game_escrow.winner = "Black"
    /\ game_escrow.game_state = "Finished"

(* C19 as claimed: in a session in progress a record_move by a             *)
(* non-participant is rejected with UnauthorizedPlayer, one by a           *)
(* participant out of turn with NotPlayerTurn; a move is accepted only     *)
(* from the player whose colour matches the parity of move_count.          *)
IsParticipant(player) ==
    player \in {game_escrow.player_white, game_escrow.player_black}

InTurn(player) ==
    (game_escrow.move_count % 2 = 0) = (player = game_escrow.player_white)

C19_OutOfTurnNotPlayerTurn ==
    game_escrow.game_state = "InProgress" =>
        \A player \in Signers, move_notation \in MoveNotations,
           from_square \in FromSquares, to_square \in ToSquares,
           is_checkmate \in BOOLEAN :
            LET r == record_move_call(game_escrow, game_vault, clock, player,
                                      move_notation, from_square, to_square,
                                      is_checkmate)
            IN /\ ~IsParticipant(player) => r.err = "UnauthorizedPlayer"
               /\ (IsParticipant(player) /\ ~InTurn(player)) =>
                     r.err = "NotPlayerTurn"
               /\ r.err = "Ok" => (IsParticipant(player) /\ InTurn(player))

(* C19 as amended: while the session is InProgress, a non-participant is   *)
(* rejected with UnauthorizedPlayer; a participant out of turn is rejected *)
(* with NotPlayerTurn when the notation has at most 10 characters and with *)
(* MoveNotationTooLong otherwise (the length is checked before the turn);  *)
(* a rejected call changes nothing; an accepted move comes from the player *)
(* whose colour matches the parity of move_count and adds one to           *)
(* move_count, so accepted moves alternate White, Black, White, ...        *)
C19_TurnOrder ==
    game_escrow.game_state = "InProgress" =>
        \A player \in Signers, move_notation \in MoveNotations,
           from_square \in FromSquares, to_square \in ToSquares,
           is_checkmate \in BOOLEAN :
            LET r == record_move_call(game_escrow, game_vault, clock, player,
                                      move_notation, from_square, to_square,
                                      is_checkmate)
            IN /\ ~IsParticipant(player) => r.err = "UnauthorizedPlayer"
               /\ (IsParticipant(player) /\ ~InTurn(player)) =>
                     r.err = (IF Len(move_notation) > 10
                              THEN "MoveNotationTooLong" ELSE "NotPlayerTurn")
               /\ r.err # "Ok" =>
                     (r.game_escrow = game_escrow /\ r.game_vault = game_vault)
               /\ r.err = "Ok" =>
                     /\ IsParticipant(player) /\ InTurn(player)
                     /\ r.game_escrow.move_count = game_escrow.move_count + 1
                     /\ Len(r.game_escrow.move_history)
                            = Len(game_escrow.move_history) + 1

C19_Witness ==
    /\ last.op = "record_move" /\ last.err = "NotPlayerTurn"
    /\ game_escrow.game_state = "InProgress"
    /\ game_escrow.move_count = 1

(* C20 as claimed: in a session in progress a record_move submitted after  *)
(* the time budget (now - last_move_time > time_limit_seconds + increment) *)
(* fails with MoveTimeExceeded and changes nothing.                        *)
MoveBudgetExceeded ==
    clock - game_escrow.last_move_time
        > game_escrow.time_limit_seconds + game_escrow.time_control.increment

C20_LateMoveTimeExceeded ==
    (game_escrow.game_state = "InProgress" /\ MoveBudgetExceeded) =>
        \A player \in Signers, move_notation \in MoveNotations,
           from_square \in FromSquares, to_square \in ToSquares,
           is_checkmate \in BOOLEAN :
            LET r == record_move_call(game_escrow, game_vault, clock, player,
                                      move_notation, from_square, to_square,
                                      is_checkmate)
            IN /\ r.err = "MoveTimeExceeded"
               /\ r.game_escrow = game_escrow
               /\ r.game_vault = game_vault

(* C20 as amended: such a call always fails and is only a rejection        *)
(* (game_state InProgress, winner None, move_count, move_history and the   *)
(* vault unchanged); the error is MoveTimeExceeded when the caller is the  *)
(* participant to move and the notation has at most 10 characters, and     *)
(* otherwise that of the earlier check that fails: UnauthorizedPlayer,     *)
(* MoveNotationTooLong or NotPlayerTurn.                                   *)
C20_LateMoveOnlyRejected ==
    (game_escrow.game_state = "InProgress" /\ MoveBudgetExceeded) =>
        \A player \in Signers, move_notation \in MoveNotations,
           from_square \in FromSquares, to_square \in ToSquares,
           is_checkmate \in BOOLEAN :
            LET r == record_move_call(game_escrow, game_vault, clock, player,
                                      move_notation, from_square, to_square,
                                      is_checkmate)
            IN /\ r.err = (IF ~IsParticipant(player) THEN "UnauthorizedPlayer"
                           ELSE IF Len(move_notation) > 10 THEN "MoveNotationTooLong"
                           ELSE IF ~InTurn(player) THEN "NotPlayerTurn"
                           ELSE "MoveTimeExceeded")
               /\ r.game_escrow = game_escrow
               /\ r.game_escrow.game_state = "InProgress"
               /\ r.game_escrow.winner = "None"
               /\ r.game_vault = game_vault
               /\ r.fee = 0 /\ r.to_white = 0 /\ r.to_black = 0

C20_Witness ==
    /\ last.op = "record_move" /\ last.err = "MoveTimeExceeded"
    /\ game_escrow.game_state = "InProgress"
    /\ game_escrow.winner = "None"
    /\ MoveBudgetExceeded

(* C21: a record_move that succeeds with is_checkmate = true leaves the    *)
(* session Finished with the mover's colour as winner and finished_at =    *)
(* now, and the result is final: every later declare_result or             *)
(* handle_timeout is rejected with GameNotInProgress, and no step changes  *)
(* the winner or finished_at of a Finished session.                        *)
C21_CheckmateIsFinal ==
    /\ [](game_escrow.game_state = "InProgress" =>
            \A player \in Signers, move_notation \in MoveNotations,
               from_square \in FromSquares, to_square \in ToSquares :
                LET r == record_move_call(game_escrow, game_vault, clock, player,
                                          move_notation, from_square, to_square, TRUE)
                    ge == r.game_escrow
                IN r.err = "Ok" =>
                    /\ ge.game_state = "Finished"
                    /\ ge.winner = (IF player = game_escrow.player_white
                                    THEN "White" ELSE "Black")
                    /\ ge.finished_at = clock
                    /\ \A later \in clock..MaxTime, rail_fail \in RailFailures :
                        /\ handle_timeout_call(ge, r.game_vault, later, rail_fail)
                              = Abort(ge, r.game_vault, "GameNotInProgress")
                        /\ \A declarer \in Signers, winner \in GameWinners,
                              reason \in GameEndReasons :
                              declare_result_call(ge, r.game_vault, later, declarer,
                                                  winner, reason, rail_fail)
                                = Abort(ge, r.game_vault, "GameNotInProgress"))
    /\ [][game_escrow.game_state = "Finished" =>
            /\ game_escrow'.game_state = "Finished"
            /\ game_escrow'.winner = game_escrow.winner
            /\ game_escrow'.finished_at = game_escrow.finished_at]_vars

\* A settlement attempted on a session that a checkmate move has finished.
C21_Witness ==
    /\ game_escrow.game_state = "Finished"
    /\ distributions = 0
    /\ game_escrow.winner = "Black"
    /\ game_escrow.move_history[game_escrow.move_count].is_checkmate
    /\ game_escrow.finished_at = game_escrow.last_move_time
    /\ last.op \in SettlementOps
    /\ last.err = "GameNotInProgress"

\* Two consecutive records among the last three of history h (the last one
\* included) carry timestamps less than 1 second apart.
CloseAmongLastThree(h) ==
    LET n == Len(h)
        first == IF n > 3 THEN n - 2 ELSE 1
    IN \E i \in (first + 1)..n : h[i].timestamp - h[i - 1].timestamp < 1

SuspicionBit(ge) == ge.anti_cheat_flags % 2 = 1

(* C22: with anti-cheat enabled, after a successful record_move the        *)
(* suspicion bit of anti_cheat_flags is set whenever two consecutive moves *)
(* among the three most recent ones, the move just appended included, are  *)
(* less than 1 second apart.                                               *)
C22_FastMovesAreFlagged ==
    (/\ last.op = "record_move" /\ last.err = "Ok"
     /\ game_escrow.enable_anti_cheat
     /\ CloseAmongLastThree(game_escrow.move_history))
        => SuspicionBit(game_escrow)

\* The session with an empty move log: is_suspicious_move_pattern is false
\* of it, and no other check of record_move reads move_history.
Unsuspected(ge) == [ge EXCEPT !.move_history = <<>>]

(* C23: anti_cheat_flags is monotonic and advisory: no step clears a bit   *)
(* that is set; only a successful record_move raises the flag; and a       *)
(* record_move that raises it returns, and leaves game_state, winner, the  *)
(* vault and every payment, exactly as the same call would have done had   *)
(* the move pattern not been suspicious.                                   *)
C23_FlagsMonotonicAdvisory ==
    /\ [][ /\ game_escrow'.anti_cheat_flags >= game_escrow.anti_cheat_flags
           /\ SuspicionBit(game_escrow) => SuspicionBit(game_escrow')
           /\ game_escrow'.anti_cheat_flags # game_escrow.anti_cheat_flags =>
                /\ last'.op = "record_move" /\ last'.err = "Ok"
                /\ game_vault' = game_vault
                /\ last'.fee = 0 /\ last'.to_white = 0 /\ last'.to_black = 0
       ]_vars
    /\ [](\A player \in Signers, move_notation \in MoveNotations,
             from_square \in FromSquares, to_square \in ToSquares,
             is_checkmate \in BOOLEAN :
            LET r == record_move_call(game_escrow, game_vault, clock, player,
                                      move_notation, from_square, to_square,
                                      is_checkmate)
                q == record_move_call(Unsuspected(game_escrow), game_vault, clock,
                                      player, move_notation, from_square,
                                      to_square, is_checkmate)
            IN /\ r.err = q.err
               /\ r.game_escrow.game_state = q.game_escrow.game_state
               /\ r.game_escrow.winner = q.game_escrow.winner
               /\ r.game_vault = q.game_vault
               /\ r.fee = q.fee /\ r.to_white = q.to_white /\ r.to_black = q.to_black
               /\ r.game_escrow.anti_cheat_flags >= game_escrow.anti_cheat_flags)

\* The fourth move raised the flag and the game goes on.
C23_Witness ==
    /\ last.op = "record_move" /\ last.err = "Ok"
    /\ SuspicionBit(game_escrow)
    /\ game_escrow.move_count = 4
    /\ game_escrow.game_state = "InProgress"
    /\ game_escrow.winner = "None"
    /\ game_vault = game_escrow.total_deposited

ValidationErrors == {"MoveNotationTooLong", "InvalidMoveFormat", "ImpossibleMove"}

\* The coordinates are malformed (not two characters, or outside a1..h8) or
\* identical.
BadCoordinates(from_square, to_square) ==
    \/ Len(from_square) # 2 \/ Len(to_square) # 2
    \/ is_impossible_move(from_square, to_square)

(* C24: validation errors are checked first: a record_move with             *)
(* a notation of more than 10 characters or with malformed or identical    *)
(* coordinates reports a validation error (MoveNotationTooLong,            *)
(* InvalidMoveFormat or ImpossibleMove) whatever the state of the session, *)
(* the caller, the turn and the time.                                      *)
C24_ValidationFirst ==
    \A player \in Signers, move_notation \in MoveNotations,
       from_square \in FromSquares, to_square \in ToSquares,
       is_checkmate \in BOOLEAN :
        (Len(move_notation) > 10 \/ BadCoordinates(from_square, to_square)) =>
            record_move_call(game_escrow, game_vault, clock, player, move_notation,
                             from_square, to_square, is_checkmate).err
                \in ValidationErrors

\* The states in which each operation of the participants passes its state
\* guard.
PermittingStates(op) ==
    CASE op \in {"deposit_stake", "cancel_game"} ->
            {"WaitingForPlayers", "WaitingForDeposits"}
      [] op \in {"record_move", "declare_result"} -> {"InProgress"}

\* The outcome r of operation op is a rejection that changed nothing, with
\* UnauthorizedPlayer when the state permits op.
RefusedAsOutsider(op, r) ==
    /\ r.err # "Ok"
    /\ game_escrow.game_state \in PermittingStates(op) => r.err = "UnauthorizedPlayer"
    /\ r.game_escrow = game_escrow
    /\ r.game_vault = game_vault
    /\ r.fee = 0 /\ r.to_white = 0 /\ r.to_black = 0

(* C25: a deposit_stake, record_move, declare_result or cancel_game call   *)
(* by a caller that is neither player_white nor player_black changes no    *)
(* session field and no balance, and in a state that permits the operation *)
(* it fails with UnauthorizedPlayer; of the mutating operations this       *)
(* leaves join_game and handle_timeout to a non-participant.               *)
C25_OnlyParticipantsAct ==
    \A player \in Signers : ~IsParticipant(player) =>
        /\ \A rail_fail \in RailFailures :
             /\ RefusedAsOutsider("deposit_stake",
                    deposit_stake_call(game_escrow, game_vault, clock, player, rail_fail))
             /\ RefusedAsOutsider("cancel_game",
                    cancel_game_call(game_escrow, game_vault, player, rail_fail))
             /\ \A winner \in GameWinners, reason \in GameEndReasons :
                    RefusedAsOutsider("declare_result",
                        declare_result_call(game_escrow, game_vault, clock, player,
                                            winner, reason, rail_fail))
        /\ \A move_notation \in MoveNotations, from_square \in FromSquares,
              to_square \in ToSquares, is_checkmate \in BOOLEAN :
                RefusedAsOutsider("record_move",
                    record_move_call(game_escrow, game_vault, clock, player,
                                     move_notation, from_square, to_square,
                                     is_checkmate))

\* An outsider tried to cancel a session that holds a stake.
C25_Witness ==
    /\ last.op = "cancel_game"
    /\ last.err = "UnauthorizedPlayer"
    /\ game_escrow.game_state = "WaitingForDeposits"
    /\ game_vault = game_escrow.stake_amount

C27_MoveLogAppendOnly ==
    /\ [](/\ game_escrow.move_count = Len(game_escrow.move_history)
          /\ \A i \in 1..Len(game_escrow.move_history) :
                game_escrow.move_history[i].move_number = i)
    /\ [][(\/ game_escrow'.move_history # game_escrow.move_history
           \/ game_escrow'.move_count # game_escrow.move_count) =>
            /\ last'.op = "record_move" /\ last'.err = "Ok"
            /\ Len(game_escrow'.move_history) = Len(game_escrow.move_history) + 1
            /\ SubSeq(game_escrow'.move_history, 1, Len(game_escrow.move_history))
                 = game_escrow.move_history
            /\ game_escrow'.move_history[Len(game_escrow'.move_history)].timestamp
                 = clock
            /\ game_escrow'.move_count = game_escrow.move_count + 1]_vars

C27_Witness ==
    /\ last.op = "record_move" /\ last.err = "Ok"
    /\ game_escrow.move_count = 4
    /\ Len(game_escrow.move_history) = 4
    /\ game_escrow.move_history[4].move_number = 4
    /\ game_escrow.move_history[1].timestamp < game_escrow.move_history[4].timestamp

(* C28: the clock never going back, the timestamps of the session are      *)
(* ordered: last_move_time never decreases, the timestamps of successive   *)
(* move records are non-decreasing, and in every Finished session          *)
(* created_at <= started_at <= last_move_time <= finished_at.              *)
C28_TimestampsOrdered ==
    /\ [][game_escrow'.last_move_time >= game_escrow.last_move_time]_vars
    /\ [](/\ \A i \in 2..Len(game_escrow.move_history) :
                game_escrow.move_history[i - 1].timestamp
                    <= game_escrow.move_history[i].timestamp
          /\ game_escrow.game_state = "Finished" =>
                /\ game_escrow.created_at <= game_escrow.started_at
                /\ game_escrow.started_at <= game_escrow.last_move_time
                /\ game_escrow.last_move_time <= game_escrow.finished_at)

C28_Witness ==
    /\ game_escrow.game_state = "Finished"
    /\ game_escrow.move_count >= 1
    /\ game_escrow.started_at < game_escrow.last_move_time
    /\ game_escrow.last_move_time < game_escrow.finished_at

(* C29: the two participants are distinct and fixed: join_game succeeds    *)
(* only in WaitingForPlayers and only for a caller other than player_white *)
(* (who gets CannotPlayAgainstSelf there); player_black is assigned at     *)
(* most once, by a successful join_game; player_white, stake_amount,       *)
(* time_limit_seconds and fee_collector never change.                      *)
C29_ParticipantsFixed ==
    /\ [](/\ game_escrow.player_white # game_escrow.player_black
          /\ \A player \in Signers :
                LET r == join_game_call(game_escrow, game_vault, player)
                IN /\ r.err = "Ok" =>
                        /\ game_escrow.game_state = "WaitingForPlayers"
                        /\ player # game_escrow.player_white
                        /\ game_escrow.player_black = DefaultPubkey
                        /\ r.game_escrow.player_black = player
                   /\ (game_escrow.game_state = "WaitingForPlayers"
                         /\ player = game_escrow.player_white) =>
                        r = Abort(game_escrow, game_vault, "CannotPlayAgainstSelf")
                   /\ game_escrow.game_state # "WaitingForPlayers" =>
                        r.err # "Ok")
    /\ [][/\ game_escrow'.player_white = game_escrow.player_white
          /\ game_escrow'.stake_amount = game_escrow.stake_amount
          /\ game_escrow'.time_limit_seconds = game_escrow.time_limit_seconds
          /\ game_escrow'.fee_collector = game_escrow.fee_collector
          /\ game_escrow'.player_black # game_escrow.player_black =>
                /\ game_escrow.player_black = DefaultPubkey
                /\ last'.op = "join_game" /\ last'.err = "Ok"]_vars

\* A second join_game, refused: the seat of black is taken.
C29_Witness ==
    /\ last.op = "join_game"
    /\ last.err = "GameNotWaitingForPlayers"
    /\ game_escrow.game_state = "WaitingForDeposits"
    /\ game_escrow.player_black \in Signers
    /\ game_escrow.player_black # game_escrow.player_white

MoveOfPlayerOnMove ==
    record_move_call(game_escrow, game_vault, clock,
                     IF game_escrow.move_count % 2 = 0
                     THEN game_escrow.player_white ELSE game_escrow.player_black,
                     [i \in 1..10 |-> 120], <<101, 50>>, <<101, 52>>, FALSE)

TimeoutCall == handle_timeout_call(game_escrow, game_vault, clock, 0)

(* C31: the move budget time_control.initial_time + increment equals       *)
(* time_limit_seconds in every state, so while the session is InProgress   *)
(* exactly one of the two holds: the player on move may still record a     *)
(* move (elapsed <= budget), or handle_timeout may be executed             *)
(* (elapsed > time_limit_seconds).                                         *)
C31_TimeGuardsComplementary ==
    /\ game_escrow.time_control.initial_time + game_escrow.time_control.increment
         = game_escrow.time_limit_seconds
    /\ game_escrow.game_state = "InProgress" =>
         /\ (MoveOfPlayerOnMove.err = "Ok") # (TimeoutCall.err = "Ok")
         /\ MoveOfPlayerOnMove.err \in {"Ok", "MoveTimeExceeded"}
         /\ TimeoutCall.err \in {"Ok", "TimeNotExceeded"}
         /\ (MoveOfPlayerOnMove.err = "Ok")
              = (clock - game_escrow.last_move_time <= game_escrow.time_limit_seconds)

\* At the very limit handle_timeout was refused: the move is still allowed.
C31_Witness ==
    /\ game_escrow.game_state = "InProgress"
    /\ last.op = "handle_timeout" /\ last.err = "TimeNotExceeded"
    /\ clock - game_escrow.last_move_time = game_escrow.time_limit_seconds
    /\ MoveOfPlayerOnMove.err = "Ok"

(* C32: while game_state is WaitingForPlayers, WaitingForDeposits or       *)
(* InProgress the vault holds exactly total_deposited (the vault starts    *)
(* empty and only this program moves funds into or out of it).             *)
C32_CustodyMatchesLedger ==
    game_escrow.game_state \in {"WaitingForPlayers", "WaitingForDeposits", "InProgress"}
        => game_vault = game_escrow.total_deposited

\* Both stakes are still in the vault after a move of the game.
C32_Witness ==
    /\ game_escrow.game_state = "InProgress"
    /\ last.op = "record_move" /\ last.err = "Ok"
    /\ game_escrow.total_deposited = 2 * game_escrow.stake_amount
    /\ game_vault = 2 * game_escrow.stake_amount

(* C33: in every Finished state the winner is White, Black or Draw, never  *)
(* None, and the winner becomes Draw only in a successful declare_result,  *)
(* never in handle_timeout or in a checkmate move.                         *)
C33_FinishedHasWinner ==
    /\ [](game_escrow.game_state = "Finished" =>
            game_escrow.winner \in {"White", "Black", "Draw"})
    /\ [][(game_escrow'.winner = "Draw" /\ game_escrow.winner # "Draw") =>
            (last'.op = "declare_result" /\ last'.err = "Ok")]_vars
    /\ [](\A rail_fail \in RailFailures :
            handle_timeout_call(game_escrow, game_vault, clock, rail_fail)
                .game_escrow.winner = "Draw" => game_escrow.winner = "Draw")

\* A draw declared after the first move of the game and settled.
C33_Witness ==
    /\ game_escrow.game_state = "Finished"
    /\ game_escrow.winner = "Draw"
    /\ last.op = "declare_result" /\ last.err = "Ok"
    /\ game_escrow.move_count = 1
    /\ distributions = 1

(* C34: a successful cancel_game changes game_state and the balances of    *)
(* the refunds and nothing else: white_deposited, black_deposited,         *)
(* total_deposited, winner (None), move_count, move_history and the player *)
(* identities stay as they were, so a Cancelled session still reports in   *)
(* total_deposited the stakes that were refunded and have left the vault.  *)
C34_CancelFrame ==
    /\ [][(InstructionStep /\ last'.op = "cancel_game" /\ last'.err = "Ok") =>
            /\ game_escrow' = [game_escrow EXCEPT !.game_state = "Cancelled"]
            /\ game_escrow'.winner = "None"
            /\ game_escrow'.move_count = 0
            /\ last'.fee = 0
            /\ last'.to_white + last'.to_black = game_escrow.total_deposited
            /\ game_vault' = game_vault - game_escrow.total_deposited]_vars
    /\ [](game_escrow.game_state = "Cancelled" =>
            /\ game_vault = 0
            /\ game_escrow.total_deposited
                 = game_escrow.stake_amount
                     * ((IF game_escrow.white_deposited THEN 1 ELSE 0)
                        + (IF game_escrow.black_deposited THEN 1 ELSE 0)))

\* The stake of white was refunded and the ledger still reports them.
C34_Witness ==
    /\ game_escrow.game_state = "Cancelled"
    /\ last.op = "cancel_game" /\ last.err = "Ok"
    /\ last.to_white = game_escrow.stake_amount
    /\ game_escrow.white_deposited
    /\ game_escrow.total_deposited = game_escrow.stake_amount
    /\ game_vault = 0

====
